---- MODULE Spec2Model ----
(***************************************************************************)
(* Model of luniix: the key-file primitives of luniix/aes_keys.py, the     *)
(* round count of luniix/constants.py and the metadata parsing of          *)
(* luniix/devices.py (class Device).                                       *)
(*                                                                         *)
(* Bytes are the integers 0..255 and a bytes object is a sequence of them. *)
(* A Python call that may raise is modelled by a record                    *)
(* [err |-> <exception name or "">, ...]; err = "" means it returned.       *)
(***************************************************************************)
EXTENDS Integers, Sequences, FiniteSets, TLC

VARIABLES
    mount,        \* the mount point: which marker files exist at its root
    file,         \* content of the metadata file md_path resolves to
    cfg_dir,      \* the one entry of CFG_DIR that may be a key file
    pi,           \* story ids listed on the device
    pc,           \* position inside Device.__init__
    device,       \* the fields of the Device under construction (self)
    error,        \* the exception that left Device.__init__, "" if none
    md_version,   \* the 2-byte version _parse_metadata read
    parsers_run,  \* history: the generation parsers entered, in order
    parse_calls,  \* history: number of calls of _parse_metadata
    dec,          \* the decrypted buffer of __md1to5_parse
    keys_result,  \* outcome of the fetch_keys call of __md6toN_parse
    buf,          \* argument of a direct call of a primitive
    call,         \* which primitive was called directly
    res,          \* result of that call
    instance,     \* DatabaseManager._instance: 0 for None, else an object id
    objects,      \* the DatabaseManager objects allocated, by object id
    returned,     \* history: the object each DatabaseManager() call returned
    init_runs,    \* history: runs of the guarded body of __init__
    load_calls,   \* history: database loads made by DatabaseManager()
    query_result  \* outcome of the last execute_query call

vars == <<mount, file, cfg_dir, pi, pc, device, error, md_version, parsers_run,
          parse_calls, dec, keys_result, buf, call, res, instance, objects,
          returned, init_runs, load_calls, query_result>>

devvars == <<mount, file, cfg_dir, pi, pc, device, error, md_version,
             parsers_run, parse_calls, dec, keys_result>>

primvars == <<buf, call, res>>

dbvars == <<instance, objects, returned, init_runs, load_calls, query_result>>

----------------------------------------------------------------------------
(* Bounds of the model *)

\* longest buffer handed directly to a primitive (0x100 = the ciphered region)
MaxBufLen == 256
\* number of byte patterns used to fill buffers and file regions
NumPatterns == 2
\* longest exhaustively enumerated short buffer
MaxShortLen == 5
\* number of DatabaseManager() calls in one run
MaxConstructions == 6

----------------------------------------------------------------------------
(* Python bytes helpers *)

Min(a, b) == IF a < b THEN a ELSE b

\* b[lo:hi] of Python, 0-based, clipped to the buffer
Slice(b, lo, hi) ==
    LET h == Min(hi, Len(b))
    IN  IF lo >= h THEN <<>> ELSE [i \in 1..(h - lo) |-> b[lo + i]]

\* fp.seek(pos); fp.read(n): a short file yields fewer bytes, never an error
read(f, pos, n) == Slice(f, pos, pos + n)

\* int.from_bytes(b, "little") for the 0..2 bytes the parsers read
int_from_bytes(b) ==
    IF Len(b) = 0 THEN 0
    ELSE IF Len(b) = 1 THEN b[1]
    ELSE b[1] + 256 * b[2]

Zeros(n) == [i \in 1..n |-> 0]

IsHexChar(c) == c \in (48..57) \cup (65..70) \cup (97..102)

HexVal(c) == IF c \in 48..57 THEN c - 48
             ELSE IF c \in 65..70 THEN c - 55
             ELSE c - 87

\* digit of binascii.hexlify / bytes.hex(): lowercase
HexDigit(n) == IF n < 10 THEN 48 + n ELSE 87 + n

\* plausible slip: the digits are rendered in upper case, as snu_str does
hexlify_upper(b) ==
    [i \in 1..(2 * Len(b)) |->
        LET n == IF i % 2 = 1 THEN b[(i + 1) \div 2] \div 16 ELSE b[i \div 2] % 16
        IN  IF n < 10 THEN 48 + n ELSE 55 + n]

\* binascii.hexlify(b)
hexlify(b) ==
    [i \in 1..(2 * Len(b)) |->
        IF i % 2 = 1 THEN HexDigit(b[(i + 1) \div 2] \div 16)
        ELSE HexDigit(b[i \div 2] % 16)]

\* binascii.unhexlify(raw.decode("utf-8")): odd length, a non-hex character
\* or a non-ASCII byte raises (binascii.Error and UnicodeDecodeError are
\* both ValueError)
unhexlify(s) ==
    IF Len(s) % 2 # 0 \/ \E i \in 1..Len(s) : ~IsHexChar(s[i])
    THEN [err |-> "ValueError", val |-> <<>>]
    ELSE [err |-> "",
          val |-> [i \in 1..(Len(s) \div 2) |->
                      16 * HexVal(s[2 * i - 1]) + HexVal(s[2 * i])]]

Upper(c) == IF c \in 97..122 THEN c - 32 ELSE c

RECURSIVE LStrip(_, _)
LStrip(s, c) == IF s # <<>> /\ s[1] = c THEN LStrip(Tail(s), c) ELSE s

----------------------------------------------------------------------------
(* luniix/aes_keys.py *)

\* plausible slip: the last group is dropped (range(0, len - 4, 4))
reverse_bytes_drop_last(input_bytes) ==
    IF Len(input_bytes) % 4 # 0
    THEN [err |-> "ValueError", val |-> <<>>]
    ELSE [err |-> "",
          val |-> [i \in 1..(IF Len(input_bytes) = 0 THEN 0
                             ELSE Len(input_bytes) - 4) |->
                      input_bytes[4 * ((i - 1) \div 4) + (4 - ((i - 1) % 4))]]]

\* plausible slip: the length test is on modulo 2
reverse_bytes_mod2(input_bytes) ==
    IF Len(input_bytes) % 2 # 0
    THEN [err |-> "ValueError", val |-> <<>>]
    ELSE [err |-> "",
          val |-> [i \in 1..Len(input_bytes) |->
                      LET j == 4 * ((i - 1) \div 4) + (4 - ((i - 1) % 4))
                      IN  IF j <= Len(input_bytes) THEN input_bytes[j]
                          ELSE input_bytes[i]]]

reverse_bytes(input_bytes) ==
    IF Len(input_bytes) % 4 # 0
    THEN [err |-> "ValueError", val |-> <<>>]
    ELSE [err |-> "",
          val |-> [i \in 1..Len(input_bytes) |->
                      input_bytes[4 * ((i - 1) \div 4) + (4 - ((i - 1) % 4))]]]

\* a directory entry as the key-file code sees it:
\*   kind "absent"  - is_file() is false
\*   kind "file"    - a readable regular file holding data
\*   kind "noperm"  - a regular file whose open() raises PermissionError
\*   kind "ioerror" - a regular file whose read() raises OSError
Entry(kind, data) == [kind |-> kind, data |-> data]

NoKeys == <<<<>>, <<>>>>

\* plausible slip: the IV is read from the start of the file again
fetch_keys_same_half(keyfile) ==
    IF keyfile.kind = "absent"
    THEN [err |-> "FileNotFoundError", val |-> NoKeys]
    ELSE IF keyfile.kind = "noperm"
    THEN [err |-> "PermissionError", val |-> NoKeys]
    ELSE IF keyfile.kind = "ioerror"
    THEN [err |-> "OSError", val |-> NoKeys]
    ELSE LET key == reverse_bytes(read(keyfile.data, 0, 16))
             iv  == reverse_bytes(read(keyfile.data, 0, 16))
         IN  IF key.err # "" THEN [err |-> key.err, val |-> NoKeys]
             ELSE IF iv.err # "" THEN [err |-> iv.err, val |-> NoKeys]
             ELSE [err |-> "", val |-> <<key.val, iv.val>>]

fetch_keys(keyfile) ==
    IF keyfile.kind = "absent"
    THEN [err |-> "FileNotFoundError", val |-> NoKeys]
    ELSE IF keyfile.kind = "noperm"
    THEN [err |-> "PermissionError", val |-> NoKeys]
    ELSE IF keyfile.kind = "ioerror"
    THEN [err |-> "OSError", val |-> NoKeys]
    ELSE LET key == reverse_bytes(read(keyfile.data, 0, 16))
             iv  == reverse_bytes(read(keyfile.data, 16, 16))
         IN  IF key.err # "" THEN [err |-> key.err, val |-> NoKeys]
             ELSE IF iv.err # "" THEN [err |-> iv.err, val |-> NoKeys]
             ELSE [err |-> "", val |-> <<key.val, iv.val>>]

----------------------------------------------------------------------------
(* luniix/constants.py *)

\* RAW_KEY_GENERIC, each 32-bit word written most significant byte first:
\* 91BD7A0A A75440A9 BBD49D6C E0DCC0E3
RAW_KEY_GENERIC ==
    << <<145, 189, 122, 10>>, <<167, 84, 64, 169>>,
       <<187, 212, 157, 108>>, <<224, 220, 192, 227>> >>

\* k.to_bytes(4, "little") of every word, joined
vectkey_to_bytes(key_vect) ==
    [i \in 1..(4 * Len(key_vect)) |->
        key_vect[((i - 1) \div 4) + 1][4 - ((i - 1) % 4)]]

LUNII_GENERIC_KEY == vectkey_to_bytes(RAW_KEY_GENERIC)

\* plausible slip: the round count of standard XXTEA, 6 + 52/n
lunii_tea_rounds_standard(buffer) ==
    IF Len(buffer) = 0
    THEN [err |-> "ZeroDivisionError", val |-> 0]
    ELSE [err |-> "", val |-> 6 + ((52 * 4) \div Len(buffer))]

\* int(1 + 52 / (len(buffer) / 4)): both divisions are true divisions, so
\* the value is 1 + 208/len truncated; a zero length divides by zero
lunii_tea_rounds(buffer) ==
    IF Len(buffer) = 0
    THEN [err |-> "ZeroDivisionError", val |-> 0]
    ELSE [err |-> "", val |-> 1 + ((52 * 4) \div Len(buffer))]

FAH_V1_USB_VID_PID == <<3141, 26656>>        \* (0x0C45, 0x6820)
FAH_V1_FW_2_USB_VID_PID == <<3141, 26688>>   \* (0x0C45, 0x6840)
FAH_V2_V3_USB_VID_PID == <<1155, 41793>>     \* (0x0483, 0xA341)
FLAM_USB_VID_PID == <<12346, 33182>>         \* (0x303A, 0x819E)

DeviceType ==
    {"UNKNOWN", "LUNII_V1or2", "LUNII_V1", "LUNII_V2", "LUNII_V3", "FLAM_V1"}

----------------------------------------------------------------------------
(* xxtea.decrypt(data, key, padding=False, rounds=r), an external library. *)
(* Its contract: data must be a multiple of 4 bytes and at least 8 bytes   *)
(* long, else ValueError; the output has the length of the input and, for  *)
(* a fixed key and round count, decryption is a permutation of the buffers *)
(* of each length (xxtea_encrypt is its inverse).  The permutation used    *)
(* here is a keyed byte-wise subtraction standing for the cipher.          *)

KeyStream(key, rounds, i) == (key[((i - 1) % Len(key)) + 1] * rounds + i) % 256

xxtea_decrypt(data, key, rounds) ==
    IF Len(data) % 4 # 0 \/ Len(data) < 8
    THEN [err |-> "ValueError", val |-> <<>>]
    ELSE [err |-> "",
          val |-> [i \in 1..Len(data) |->
                      (data[i] + 256 - KeyStream(key, rounds, i)) % 256]]

xxtea_encrypt(data, key, rounds) ==
    [i \in 1..Len(data) |-> (data[i] + KeyStream(key, rounds, i)) % 256]

----------------------------------------------------------------------------
(* luniix/devices.py: class Device *)

UnknownFw == <<63, 46, 63, 46, 63>>    \* "?.?.?"

\* the assignments of Device.__init__ before _parse_metadata is called
NewDevice ==
    [device_type |-> "UNKNOWN",
     device_key |-> <<>>, device_iv |-> <<>>,
     story_key |-> <<>>, story_iv |-> <<>>,
     snu |-> <<>>,
     fw_main |-> UnknownFw, fw_comm |-> UnknownFw,
     fw_vers_major |-> 0, fw_vers_minor |-> 0, fw_vers_subminor |-> 0,
     bt |-> <<>>,
     stories |-> {}]

\* snu.hex().upper().lstrip("0")
snu_str(self) == LStrip([i \in 1..(2 * Len(self.snu)) |-> Upper(hexlify(self.snu)[i])], 48)

is_lunii(mnt) == mnt.md

is_flam(mnt) == mnt.mdf

\* plausible slip: a mount point without marker file falls back to ".md"
md_path_fallback(mnt) ==
    IF is_lunii(mnt) THEN [err |-> "", val |-> ".md"]
    ELSE IF is_flam(mnt) THEN [err |-> "", val |-> ".mdf"]
    ELSE [err |-> "", val |-> ".md"]

md_path(mnt) ==
    IF is_lunii(mnt) THEN [err |-> "", val |-> ".md"]
    ELSE IF is_flam(mnt) THEN [err |-> "", val |-> ".mdf"]
    ELSE [err |-> "RuntimeError: unknown device type", val |-> ""]

\* CFG_DIR / f"{self.snu_str}.keys": the entry of that name, if any
dev_keyfile(self, cfg) ==
    IF cfg.name = snu_str(self) THEN Entry(cfg.kind, cfg.data)
    ELSE Entry("absent", <<>>)

\* what a parser hands back: the fields of self as it left them, the
\* exception it raised ("" if it returned), its decrypted buffer and the
\* outcome of its fetch_keys call
Parsed(self, err, d, k) == [dev |-> self, err |-> err, dec |-> d, keys |-> k]

(* str helpers of __md1_parse; a str is the sequence of its code points *)

RECURSIVE Replace(_, _)
\* s.replace(p, "")
Replace(s, p) ==
    IF Len(s) < Len(p) THEN s
    ELSE IF SubSeq(s, 1, Len(p)) = p THEN Replace(SubSeq(s, Len(p) + 1, Len(s)), p)
    ELSE <<s[1]>> \o Replace(Tail(s), p)

RECURSIVE RStrip(_, _)
RStrip(s, c) ==
    IF s # <<>> /\ s[Len(s)] = c THEN RStrip(SubSeq(s, 1, Len(s) - 1), c) ELSE s

\* the part of s before the first occurrence of c
RECURSIVE Before(_, _)
Before(s, c) ==
    IF s = <<>> \/ s[1] = c THEN <<>> ELSE <<s[1]>> \o Before(Tail(s), c)

\* s.splitlines() on "\n"
RECURSIVE SplitLines(_)
SplitLines(s) ==
    IF s = <<>> THEN <<>>
    ELSE LET line == Before(s, 10)
         IN  IF Len(line) = Len(s) THEN <<line>>
             ELSE <<line>> \o SplitLines(SubSeq(s, Len(line) + 2, Len(s)))

IsAscii(b) == \A i \in 1..Len(b) : b[i] < 128

MainPrefix == <<109, 97, 105, 110, 58, 32>>    \* "main: "
CommPrefix == <<99, 111, 109, 109, 58, 32>>    \* "comm: "

md1_parse(self, f) ==
    LET raw == read(f, 2, 48)
        raw_str == Replace(Replace(RStrip(LStrip(raw, 0), 0), MainPrefix), CommPrefix)
        versions == SplitLines(raw_str)
        snu_raw == read(f, 50, 24)
        snu == unhexlify(RStrip(snu_raw, 0))
        vid == int_from_bytes(read(f, 74, 2))
        pid == int_from_bytes(read(f, 76, 2))
    IN  IF ~IsAscii(raw) THEN Parsed(self, "ValueError", <<>>, "not called")
        ELSE IF versions = <<>> THEN Parsed(self, "IndexError", <<>>, "not called")
        ELSE LET s1 == [self EXCEPT !.fw_main = Before(versions[1], 45),
                                    !.fw_comm = IF Len(versions) > 1
                                                THEN Before(versions[2], 45)
                                                ELSE @]
             IN  IF ~IsAscii(snu_raw) \/ snu.err # ""
                 THEN Parsed(s1, "ValueError", <<>>, "not called")
                 ELSE Parsed([s1 EXCEPT !.snu = snu.val,
                                        !.device_type =
                                            IF <<vid, pid>> = FLAM_USB_VID_PID
                                            THEN "FLAM_V1" ELSE "UNKNOWN"],
                             "", <<>>, "not called")

\* plausible slip: the second generation 1 identifier pair is not tested
md1to5_parse_one_v1_pair(self, f) ==
    LET vid == int_from_bytes(read(f, 18, 2))
        pid == int_from_bytes(read(f, 20, 2))
        s1 == [self EXCEPT
                 !.fw_vers_major = int_from_bytes(read(f, 6, 2)),
                 !.fw_vers_minor = int_from_bytes(read(f, 8, 2)),
                 !.snu = read(f, 10, 8),
                 !.device_type =
                     IF <<vid, pid>> = FAH_V1_USB_VID_PID
                     THEN "LUNII_V1"
                     ELSE IF <<vid, pid>> = FAH_V2_V3_USB_VID_PID
                     THEN "LUNII_V2"
                     ELSE "LUNII_V1or2"]
        raw_devkey == read(f, 256, 256)
        rounds == lunii_tea_rounds(raw_devkey)
        d == xxtea_decrypt(raw_devkey, LUNII_GENERIC_KEY, rounds.val)
    IN  IF rounds.err # "" THEN Parsed(s1, rounds.err, <<>>, "not called")
        ELSE IF d.err # "" THEN Parsed(s1, d.err, <<>>, "not called")
        ELSE Parsed([s1 EXCEPT !.device_key =
                                   Slice(d.val, 8, 16) \o Slice(d.val, 0, 8)],
                    "", d.val, "not called")

\* plausible slip: the reordering of the key components is left out
md1to5_parse_raw_key(self, f) ==
    LET vid == int_from_bytes(read(f, 18, 2))
        pid == int_from_bytes(read(f, 20, 2))
        s1 == [self EXCEPT
                 !.fw_vers_major = int_from_bytes(read(f, 6, 2)),
                 !.fw_vers_minor = int_from_bytes(read(f, 8, 2)),
                 !.snu = read(f, 10, 8),
                 !.device_type =
                     IF <<vid, pid>> = FAH_V1_USB_VID_PID
                        \/ <<vid, pid>> = FAH_V1_FW_2_USB_VID_PID
                     THEN "LUNII_V1"
                     ELSE IF <<vid, pid>> = FAH_V2_V3_USB_VID_PID
                     THEN "LUNII_V2"
                     ELSE "LUNII_V1or2"]
        raw_devkey == read(f, 256, 256)
        rounds == lunii_tea_rounds(raw_devkey)
        d == xxtea_decrypt(raw_devkey, LUNII_GENERIC_KEY, rounds.val)
    IN  IF rounds.err # "" THEN Parsed(s1, rounds.err, <<>>, "not called")
        ELSE IF d.err # "" THEN Parsed(s1, d.err, <<>>, "not called")
        ELSE Parsed([s1 EXCEPT !.device_key = Slice(d.val, 0, 16)],
                    "", d.val, "not called")

md1to5_parse(self, f) ==
    LET vid == int_from_bytes(read(f, 18, 2))
        pid == int_from_bytes(read(f, 20, 2))
        s1 == [self EXCEPT
                 !.fw_vers_major = int_from_bytes(read(f, 6, 2)),
                 !.fw_vers_minor = int_from_bytes(read(f, 8, 2)),
                 !.snu = read(f, 10, 8),
                 !.device_type =
                     IF <<vid, pid>> = FAH_V1_USB_VID_PID
                        \/ <<vid, pid>> = FAH_V1_FW_2_USB_VID_PID
                     THEN "LUNII_V1"
                     ELSE IF <<vid, pid>> = FAH_V2_V3_USB_VID_PID
                     THEN "LUNII_V2"
                     ELSE "LUNII_V1or2"]
        raw_devkey == read(f, 256, 256)
        rounds == lunii_tea_rounds(raw_devkey)
        d == xxtea_decrypt(raw_devkey, LUNII_GENERIC_KEY, rounds.val)
    IN  IF rounds.err # "" THEN Parsed(s1, rounds.err, <<>>, "not called")
        ELSE IF d.err # "" THEN Parsed(s1, d.err, <<>>, "not called")
        ELSE Parsed([s1 EXCEPT !.device_key =
                                   Slice(d.val, 8, 16) \o Slice(d.val, 0, 8)],
                    "", d.val, "not called")

\* plausible slip: the second fp_md.read(0x10) starts at 0x40 again
md6toN_parse_iv_rewound(self, f, cfg) ==
    LET md_vers == int_from_bytes(read(f, 0, 1))
        s1 == [self EXCEPT
                 !.device_type = "LUNII_V3",
                 !.fw_vers_major = int_from_bytes(read(f, 2, 1)) - 48,
                 !.fw_vers_minor = int_from_bytes(read(f, 4, 1)) - 48,
                 !.fw_vers_subminor = int_from_bytes(read(f, 6, 1)) - 48]
        snu_raw == read(f, 26, 14)
        snu == unhexlify(snu_raw)
        s2 == [s1 EXCEPT !.snu = snu.val]
        hex == hexlify(s2.snu)
        key == IF md_vers = 6 THEN reverse_bytes(hex \o Zeros(2))
               ELSE reverse_bytes(read(f, 64, 16))
        iv == IF md_vers = 6 THEN reverse_bytes(Zeros(8) \o Slice(hex, 0, 8))
              ELSE reverse_bytes(read(f, 64, 16))
        s3 == IF md_vers = 6 THEN [s2 EXCEPT !.bt = read(f, 64, 32)] ELSE s2
        s4 == [s3 EXCEPT !.story_key = key.val]
        s5 == [s4 EXCEPT !.story_iv = iv.val,
                         !.bt = IF md_vers = 6 THEN @
                                ELSE hex \o Zeros(10) \o Slice(hex, 0, 8)]
        keys == fetch_keys(dev_keyfile(s5, cfg))
    IN  IF ~IsAscii(snu_raw) \/ snu.err # ""
        THEN Parsed(s1, "ValueError", <<>>, "not called")
        ELSE IF key.err # "" THEN Parsed(s3, key.err, <<>>, "not called")
        ELSE IF iv.err # "" THEN Parsed(s4, iv.err, <<>>, "not called")
        ELSE IF keys.err = "FileNotFoundError"
        THEN Parsed(s5, "", <<>>, keys.err)
        ELSE IF keys.err # "" THEN Parsed(s5, keys.err, <<>>, keys.err)
        ELSE Parsed([s5 EXCEPT !.device_key = keys.val[1],
                               !.device_iv = keys.val[2]],
                    "", <<>>, "returned")

md6toN_parse(self, f, cfg) ==
    LET md_vers == int_from_bytes(read(f, 0, 1))
        s1 == [self EXCEPT
                 !.device_type = "LUNII_V3",
                 !.fw_vers_major = int_from_bytes(read(f, 2, 1)) - 48,
                 !.fw_vers_minor = int_from_bytes(read(f, 4, 1)) - 48,
                 !.fw_vers_subminor = int_from_bytes(read(f, 6, 1)) - 48]
        snu_raw == read(f, 26, 14)
        snu == unhexlify(snu_raw)
        s2 == [s1 EXCEPT !.snu = snu.val]
        hex == hexlify(s2.snu)
        key == IF md_vers = 6 THEN reverse_bytes(hex \o Zeros(2))
               ELSE reverse_bytes(read(f, 64, 16))
        iv == IF md_vers = 6 THEN reverse_bytes(Zeros(8) \o Slice(hex, 0, 8))
              ELSE reverse_bytes(read(f, 80, 16))
        s3 == IF md_vers = 6 THEN [s2 EXCEPT !.bt = read(f, 64, 32)] ELSE s2
        s4 == [s3 EXCEPT !.story_key = key.val]
        s5 == [s4 EXCEPT !.story_iv = iv.val,
                         !.bt = IF md_vers = 6 THEN @
                                ELSE hex \o Zeros(10) \o Slice(hex, 0, 8)]
        keys == fetch_keys(dev_keyfile(s5, cfg))
    IN  IF ~IsAscii(snu_raw) \/ snu.err # ""
        THEN Parsed(s1, "ValueError", <<>>, "not called")
        ELSE IF key.err # "" THEN Parsed(s3, key.err, <<>>, "not called")
        ELSE IF iv.err # "" THEN Parsed(s4, iv.err, <<>>, "not called")
        ELSE IF keys.err = "FileNotFoundError"
        THEN Parsed(s5, "", <<>>, keys.err)
        ELSE IF keys.err # "" THEN Parsed(s5, keys.err, <<>>, keys.err)
        ELSE Parsed([s5 EXCEPT !.device_key = keys.val[1],
                               !.device_iv = keys.val[2]],
                    "", <<>>, "returned")

\* what _parse_metadata hands back: the parser's outcome, the version it
\* read and the parsers it entered
Dispatched(r, v, ps) ==
    [dev |-> r.dev, err |-> r.err, dec |-> r.dec, keys |-> r.keys,
     version |-> v, parsers |-> ps]

\* plausible slip: the lower generations are tested first
parse_metadata_low_first(self, mnt, f, cfg) ==
    LET path == md_path(mnt)
        v == int_from_bytes(read(f, 0, 2))
    IN  IF path.err # ""
        THEN Dispatched(Parsed(self, path.err, <<>>, "not called"), 0, <<>>)
        ELSE IF v >= 1 THEN Dispatched(md1to5_parse(self, f), v, <<"md1to5">>)
        ELSE IF v >= 6
        THEN Dispatched(md6toN_parse(self, f, cfg), v, <<"md6toN">>)
        ELSE Dispatched(Parsed(self, "RuntimeError: Unsupported MD version",
                               <<>>, "not called"), v, <<>>)

parse_metadata(self, mnt, f, cfg) ==
    LET path == md_path(mnt)
        v == int_from_bytes(read(f, 0, 2))
    IN  IF path.err # ""
        THEN Dispatched(Parsed(self, path.err, <<>>, "not called"), 0, <<>>)
        ELSE IF v >= 6
        THEN Dispatched(md6toN_parse(self, f, cfg), v, <<"md6toN">>)
        ELSE IF v >= 1 THEN Dispatched(md1to5_parse(self, f), v, <<"md1to5">>)
        ELSE IF v = 1 THEN Dispatched(md1_parse(self, f), v, <<"md1">>)
        ELSE Dispatched(Parsed(self, "RuntimeError: Unsupported MD version",
                               <<>>, "not called"), v, <<>>)

\* set(load(shown, hidden=False)) updated with load(hidden, hidden=True):
\* Story equality is by uuid, an element already in the set is kept
load_stories(mnt, p) ==
    IF is_lunii(mnt) \/ is_flam(mnt)
    THEN {[uuid |-> u, hidden |-> FALSE] : u \in p.shown}
         \cup {[uuid |-> u, hidden |-> TRUE] : u \in p.hidden \ p.shown}
    ELSE {}

----------------------------------------------------------------------------
(* The inputs: metadata files laid out as the parsers read them, the       *)
(* entry of the configuration directory, the story lists.                  *)

Pattern(n, p) == [i \in 1..n |-> (i * (2 * p + 1) + 16 * p) % 256]

\* a buffer of n bytes repeating the first 8 bytes of a pattern
Periodic(n, p) == [i \in 1..n |-> Pattern(8, p)[((i - 1) % 8) + 1]]

\* the bytes of f with those of part written at offset pos (0-based)
Put(f, pos, part) ==
    [i \in 1..Len(f) |->
        IF i > pos /\ i <= pos + Len(part) THEN part[i - pos] ELSE f[i]]

LE16(n) == <<n % 256, n \div 256>>

SerialUpper == <<48, 49, 50, 51, 52, 53, 54, 55, 56, 57, 65, 66, 67, 68>>    \* "0123456789ABCD"
SerialLower == <<48, 48, 97, 49, 98, 50, 99, 51, 100, 52, 101, 53, 102, 54>>    \* "00a1b2c3d4e5f6"
SerialBad == <<48, 49, 50, 51, 52, 53, 54, 55, 56, 57, 65, 66, 67, 71>>    \* "0123456789ABCG"
Serials == {SerialUpper, SerialLower, SerialBad}

\* layout read by __md6toN_parse: version, "3.1.2", serial at 0x1A,
\* ciphered region at 0x40
Gen6File(v, serial, p) ==
    Put(Put(Put(Put(Zeros(512), 0, LE16(v)),
                2, <<51, 46, 49, 46, 50>>),
            26, serial),
        64, Pattern(32, p))

\* layout read by __md1to5_parse: version, firmware 2.22, serial at 10,
\* VID/PID at 18, at 0x100 the region that decrypts to d
Gen1to5File(v, vidpid, d) ==
    Put(Put(Put(Put(Put(Put(Zeros(512), 0, LE16(v)),
                        6, LE16(2)),
                    8, LE16(22)),
                10, Pattern(8, 1)),
            18, LE16(vidpid[1]) \o LE16(vidpid[2])),
        256, xxtea_encrypt(d, LUNII_GENERIC_KEY, 1))

FlamFw == <<109, 97, 105, 110, 58, 32, 49, 46, 50, 46, 51, 45, 114, 99, 49, 10, 99, 111, 109, 109, 58, 32, 52, 46, 53, 46, 54, 45, 98, 50, 10>>
    \* "main: 1.2.3-rc1\ncomm: 4.5.6-b2\n"
FlamSerial == <<48, 48, 49, 49, 50, 50, 51, 51, 52, 52, 53, 53, 54, 54, 55, 55, 56, 56, 57, 57, 48, 48, 65, 65>>    \* "0011223344556677889900AA"

\* layout read by __md1_parse: version, firmware strings at 2, serial at 50,
\* VID/PID at 74
Gen1File(v, vidpid) ==
    Put(Put(Put(Put(Zeros(512), 0, LE16(v)),
                2, FlamFw),
            50, FlamSerial),
        74, LE16(vidpid[1]) \o LE16(vidpid[2]))

Gen6Versions == {6, 7, 8, 256, 262}
Gen1to5Versions == {1, 5}
VidPids == {FAH_V1_USB_VID_PID, FAH_V1_FW_2_USB_VID_PID, FAH_V2_V3_USB_VID_PID,
            FLAM_USB_VID_PID, <<FAH_V1_USB_VID_PID[1], FAH_V2_V3_USB_VID_PID[2]>>}
PlainKeys == {Pattern(256, p) : p \in 1..NumPatterns} \cup {Periodic(256, 1)}

\* lengths a metadata file is cut to
FileLens == {0, 1, 2, 32, 40, 68, 80, 96, 264, 266, 512}

Cut(files) == {Slice(f, 0, n) : f \in files, n \in FileLens}

Gen6Files ==
    Cut({Gen6File(v, s, p) : v \in Gen6Versions, s \in Serials, p \in 1..NumPatterns})
Gen1to5Files ==
    Cut({Gen1to5File(v, vp, d) : v \in Gen1to5Versions, vp \in VidPids, d \in PlainKeys})
Gen1Files ==
    Cut({Gen1File(0, vp) : vp \in {FLAM_USB_VID_PID, FAH_V1_USB_VID_PID}})

KeyFileLens == {0, 5, 16, 32, 40}
KeyNames == {LStrip(SerialUpper, 48),
             [i \in 1..12 |-> Upper(LStrip(SerialLower, 48)[i])]}

NoEntry == [name |-> <<>>, kind |-> "absent", data |-> <<>>]

CfgDirs ==
    {NoEntry}
    \cup {[name |-> n, kind |-> "file", data |-> Pattern(l, p)] :
            n \in KeyNames, l \in KeyFileLens, p \in {NumPatterns}}
    \cup {[name |-> n, kind |-> k, data |-> <<>>] :
            n \in KeyNames, k \in {"noperm", "ioerror"}}

Mounts == [md : BOOLEAN, mdf : BOOLEAN]

NoStories == [shown |-> {}, hidden |-> {}]
StoryLists == {NoStories, [shown |-> {1, 2}, hidden |-> {2, 3}]}

Scenario(m, f, c, p) == [mount |-> m, file |-> f, cfg_dir |-> c, pi |-> p]

Scenarios ==
    {Scenario([md |-> TRUE, mdf |-> FALSE], f, c, NoStories) :
        f \in Gen6Files, c \in CfgDirs}
    \cup {Scenario(m, f, NoEntry, p) :
            m \in {[md |-> TRUE, mdf |-> FALSE], [md |-> TRUE, mdf |-> TRUE]},
            f \in Gen1to5Files, p \in StoryLists}
    \cup {Scenario(m, f, NoEntry, p) :
            m \in Mounts, f \in Gen1Files, p \in StoryLists}

----------------------------------------------------------------------------
(* Device.__init__ as a state machine *)

NoResult == [err |-> "", val |-> <<>>]

\* the DatabaseManager class before any construction: _instance = None
NoDatabaseManager ==
    /\ instance = 0
    /\ objects = <<>>
    /\ returned = <<>>
    /\ init_runs = 0
    /\ load_calls = 0
    /\ query_result = NoResult

Init ==
    /\ \E s \in Scenarios :
        /\ mount = s.mount
        /\ file = s.file
        /\ cfg_dir = s.cfg_dir
        /\ pi = s.pi
    /\ pc = "call"
    /\ device = NewDevice
    /\ error = ""
    /\ md_version = 0
    /\ parsers_run = <<>>
    /\ parse_calls = 0
    /\ dec = <<>>
    /\ keys_result = "not called"
    /\ buf = <<>>
    /\ call = "none"
    /\ res = NoResult
    /\ NoDatabaseManager

\* Device.__init__, up to the call of _parse_metadata
DeviceInit ==
    /\ pc = "call"
    /\ device' = NewDevice
    /\ pc' = "parse_metadata"
    /\ UNCHANGED <<mount, file, cfg_dir, pi, error, md_version, parsers_run,
                   parse_calls, dec, keys_result, primvars, dbvars>>

\* self._parse_metadata()
ParseMetadata ==
    /\ pc = "parse_metadata"
    /\ LET r == parse_metadata(device, mount, file, cfg_dir)
       IN  /\ device' = r.dev
           /\ error' = r.err
           /\ md_version' = r.version
           /\ parsers_run' = parsers_run \o r.parsers
           /\ dec' = r.dec
           /\ keys_result' = r.keys
           /\ pc' = IF r.err = "" THEN "load_stories" ELSE "raised"
    /\ parse_calls' = parse_calls + 1
    /\ UNCHANGED <<mount, file, cfg_dir, pi, primvars, dbvars>>

\* self._load_stories(); the constructor returns
LoadStories ==
    /\ pc = "load_stories"
    /\ device' = [device EXCEPT !.stories = load_stories(mount, pi)]
    /\ pc' = "returned"
    /\ UNCHANGED <<mount, file, cfg_dir, pi, error, md_version, parsers_run,
                   parse_calls, dec, keys_result, primvars, dbvars>>

Next == DeviceInit \/ ParseMetadata \/ LoadStories

Spec == Init /\ [][Next]_vars

----------------------------------------------------------------------------
(* Direct calls of the primitives on buffers drawn from a bounded set *)

ShortBytes == {0, 7, 255}

RECURSIVE SeqsUpTo(_, _)
SeqsUpTo(S, n) ==
    IF n = 0 THEN {<<>>}
    ELSE LET shorter == SeqsUpTo(S, n - 1)
         IN  shorter \cup {Append(q, x) : q \in {r \in shorter : Len(r) = n - 1},
                                          x \in S}

Buffers ==
    SeqsUpTo(ShortBytes, MaxShortLen)
    \cup {Pattern(n, p) : n \in 0..MaxBufLen, p \in 1..NumPatterns}

InitPrim ==
    /\ mount = [md |-> FALSE, mdf |-> FALSE]
    /\ file = <<>>
    /\ cfg_dir = NoEntry
    /\ pi = NoStories
    /\ pc = "idle"
    /\ device = NewDevice
    /\ error = ""
    /\ md_version = 0
    /\ parsers_run = <<>>
    /\ parse_calls = 0
    /\ dec = <<>>
    /\ keys_result = "not called"
    /\ buf \in Buffers
    /\ call = "none"
    /\ res = NoResult
    /\ NoDatabaseManager

\* reverse_bytes(buf)
CallReverseBytes ==
    /\ call = "none"
    /\ call' = "reverse_bytes"
    /\ res' = reverse_bytes(buf)
    /\ UNCHANGED <<buf, devvars, dbvars>>

\* reverse_bytes(reverse_bytes(buf)), when the first call returned
CallReverseBytesAgain ==
    /\ call = "reverse_bytes"
    /\ res.err = ""
    /\ call' = "reverse_bytes twice"
    /\ res' = reverse_bytes(res.val)
    /\ UNCHANGED <<buf, devvars, dbvars>>

\* lunii_tea_rounds(buf)
CallTeaRounds ==
    /\ call = "none"
    /\ call' = "lunii_tea_rounds"
    /\ res' = lunii_tea_rounds(buf)
    /\ UNCHANGED <<buf, devvars, dbvars>>

\* fetch_keys(keyfile) on an existing, readable key file holding buf
CallFetchKeys ==
    /\ call = "none"
    /\ call' = "fetch_keys"
    /\ res' = fetch_keys(Entry("file", buf))
    /\ UNCHANGED <<buf, devvars, dbvars>>

NextPrim ==
    CallReverseBytes \/ CallReverseBytesAgain \/ CallTeaRounds \/ CallFetchKeys

SpecPrim == InitPrim /\ [][NextPrim]_vars

----------------------------------------------------------------------------
(* DatabaseManager: constructions and calls of its methods *)

Uris == {"official.json", "third-party.json", "sqlite://stories"}

Queries == {"SELECT 1", "SELECT uuid", "SELECT title"}

\* the attribute an object has not been given yet
Unset == "unset"

\* DatabaseManager.__new__: the object returned and the objects then allocated
db_new(inst, objs) ==
    IF inst = 0
    THEN [instance |-> Len(objs) + 1,
          objects |-> Append(objs, [initialized |-> FALSE,
                                    connection |-> Unset])]
    ELSE [instance |-> inst, objects |-> objs]

\* DatabaseManager.__init__ on self: the object after the call, and whether
\* the guarded body ran
db_init(self) ==
    IF self.initialized
    THEN [self |-> self, ran |-> FALSE]
    ELSE [self |-> [initialized |-> TRUE, connection |-> "None"],
          ran |-> TRUE]

InitDb ==
    /\ mount = [md |-> FALSE, mdf |-> FALSE]
    /\ file = <<>>
    /\ cfg_dir = NoEntry
    /\ pi = NoStories
    /\ pc = "idle"
    /\ device = NewDevice
    /\ error = ""
    /\ md_version = 0
    /\ parsers_run = <<>>
    /\ parse_calls = 0
    /\ dec = <<>>
    /\ keys_result = "not called"
    /\ buf = <<>>
    /\ call = "none"
    /\ res = NoResult
    /\ NoDatabaseManager

\* DatabaseManager(): __new__, then __init__ on the object __new__ returned
Construct ==
    /\ Len(returned) < MaxConstructions
    /\ LET n == db_new(instance, objects)
           i == db_init(n.objects[n.instance])
       IN  /\ instance' = n.instance
           /\ objects' = [n.objects EXCEPT ![n.instance] = i.self]
           /\ returned' = Append(returned, n.instance)
           /\ init_runs' = init_runs + (IF i.ran THEN 1 ELSE 0)
    /\ UNCHANGED <<load_calls, query_result, devvars, primvars>>

\* self.connect(uri) on an object a construction returned
Connect ==
    /\ \E k \in 1..Len(returned), uri \in Uris :
          LET self == returned[k]
          IN  objects' = IF objects[self].connection = "None"
                         THEN [objects EXCEPT ![self].connection = uri]
                         ELSE objects
    /\ UNCHANGED <<instance, returned, init_runs, load_calls, query_result,
                   devvars, primvars>>

\* self.execute_query(query)
ExecuteQuery ==
    /\ \E k \in 1..Len(returned), query \in Queries :
          LET self == returned[k]
          IN  query_result' =
                  IF objects[self].connection = "None"
                  THEN [err |-> "RuntimeError: Database connection not established",
                        val |-> <<>>]
                  ELSE [err |-> "", val |-> <<"Executed query: ", query>>]
    /\ UNCHANGED <<instance, objects, returned, init_runs, load_calls,
                   devvars, primvars>>

\* self.close()
Close ==
    /\ \E k \in 1..Len(returned) :
          objects' = [objects EXCEPT ![returned[k]].connection = "None"]
    /\ UNCHANGED <<instance, returned, init_runs, load_calls, query_result,
                   devvars, primvars>>

NextDb == Construct \/ Connect \/ ExecuteQuery \/ Close

SpecDb == InitDb /\ [][NextDb]_vars

----------------------------------------------------------------------------
(* Properties *)

\* ByteReversal as the specification states it: the buffer is cut into
\* consecutive 4-byte groups and each group is reversed
RECURSIVE ByteReversal(_)
ByteReversal(b) ==
    IF Len(b) < 4 THEN <<>>
    ELSE <<b[4], b[3], b[2], b[1]>> \o ByteReversal(SubSeq(b, 5, Len(b)))

\* the version field as it stands in the metadata file
FileVersion == int_from_bytes(read(file, 0, 2))

\* _parse_metadata has been called and is over
Dispatch_done == pc \in {"load_stories", "returned", "raised"}

Recognised == mount.md \/ mount.mdf

\* C1: the version read from the metadata file selects the one parser that
\* runs: md6toN alone for a version >= 6, md1to5 alone for a version in 1..5;
\* never more than one parser is entered, and a constructed Device had
\* exactly one.
C1_OneParserByVersion ==
    /\ Len(parsers_run) <= 1
    /\ (Dispatch_done /\ Recognised) =>
          /\ md_version = FileVersion
          /\ (FileVersion >= 6 => parsers_run = <<"md6toN">>)
          /\ (FileVersion \in 1..5 => parsers_run = <<"md1to5">>)
    /\ (pc = "returned" => Len(parsers_run) = 1)

C1_Witness ==
    /\ pc = "returned"
    /\ FileVersion = 262
    /\ parsers_run = <<"md6toN">>

\* C2: a version field of 0 on a Flam device (metadata file .mdf) is routed
\* to the generation 1 parser; version 0 is refused as unsupported only when
\* the device is not a Flam device.
C2_ZeroRoutesToGen1 ==
    (Dispatch_done /\ is_flam(mount) /\ ~is_lunii(mount)
        /\ Len(file) >= 2 /\ FileVersion = 0)
    => /\ parsers_run = <<"md1">>
       /\ error # "RuntimeError: Unsupported MD version"

\* the metadata file is too short for a fixed-offset read of the parser its
\* version selects, or its serial field is not hex
Malformed ==
    \/ FileVersion >= 6 /\ Len(file) < 96
    \/ FileVersion >= 6 /\ unhexlify(read(file, 26, 14)).err # ""
    \/ FileVersion \in 1..5 /\ Len(file) < 512

\* C3: a malformed metadata file makes the construction fail; no Device is
\* returned whose fields come from a truncated read.
C3_MalformedFails ==
    (Recognised /\ Malformed) => pc # "returned"

\* fetch_keys was called by the generation 6+ parser
Keys_fetched == parsers_run = <<"md6toN">> /\ keys_result # "not called"

\* C4: in the generation 6+ parser, a missing key file makes fetch_keys raise
\* FileNotFoundError, the parse completes and device_key and device_iv stay
\* empty; a key file of 32 bytes gives device_key = ByteReversal(bytes 0..15)
\* and device_iv = ByteReversal(bytes 16..31).
C4_KeyFile ==
    Keys_fetched =>
        LET kf == dev_keyfile(device, cfg_dir)
        IN  /\ kf.kind = "absent" =>
                  /\ keys_result = "FileNotFoundError"
                  /\ error = ""
                  /\ pc \in {"load_stories", "returned"}
                  /\ device.device_key = <<>>
                  /\ device.device_iv = <<>>
            /\ (kf.kind = "file" /\ Len(kf.data) = 32) =>
                  /\ error = ""
                  /\ pc \in {"load_stories", "returned"}
                  /\ device.device_key = ByteReversal(Slice(kf.data, 0, 16))
                  /\ device.device_iv = ByteReversal(Slice(kf.data, 16, 32))

C4_Witness ==
    /\ Keys_fetched
    /\ pc = "returned"
    /\ dev_keyfile(device, cfg_dir).kind = "file"
    /\ Len(cfg_dir.data) = 32
    /\ Len(device.device_key) = 16
    /\ Len(device.device_iv) = 16
    /\ device.device_key # device.device_iv

\* C5: fetch_keys on an existing key file of fewer than 32 bytes fails and
\* returns no (key, iv) pair.
C5_ShortKeyFileFails ==
    (call = "fetch_keys" /\ Len(buf) < 32) => res.err # ""

\* C6: a key-file failure other than absence (open refused, read error) is
\* treated as no override: the generation 6+ parse completes with device_key
\* and device_iv empty and the construction is not aborted.
C6_KeyFileFailureIsNoOverride ==
    (Keys_fetched /\ keys_result \in {"PermissionError", "OSError"})
    => /\ error = ""
       /\ pc # "raised"
       /\ device.device_key = <<>>
       /\ device.device_iv = <<>>

\* C7: reverse_bytes is its own inverse on every buffer whose length is a
\* multiple of 4, the empty buffer included.
C7_ReverseBytesInvolution ==
    /\ (call = "reverse_bytes" /\ Len(buf) % 4 = 0) => res.err = ""
    /\ (call = "reverse_bytes twice" /\ Len(buf) % 4 = 0) =>
          res.err = "" /\ res.val = buf

C7_Witness ==
    /\ call = "reverse_bytes twice"
    /\ Len(buf) = 256
    /\ res.val = buf
    /\ reverse_bytes(buf).val # buf

\* C8: reverse_bytes raises the invalid-length error, and returns nothing,
\* exactly for the buffers whose length is not a multiple of 4.
C8_ReverseBytesInvalidLength ==
    call = "reverse_bytes" =>
        /\ (Len(buf) % 4 # 0 <=> res.err = "ValueError")
        /\ (Len(buf) % 4 # 0 => res.val = <<>>)
        /\ (Len(buf) % 4 = 0 => res.err = "" /\ Len(res.val) = Len(buf))

C8_Witness ==
    /\ call = "reverse_bytes"
    /\ Len(buf) = 5
    /\ res.err = "ValueError"

\* C9: for a buffer of a positive multiple of 4 bytes lunii_tea_rounds is
\* 1 + floor(52 / (length / 4)): 1 for 0x100 bytes, 4 for 0x40 bytes.
C9_TeaRounds ==
    (call = "lunii_tea_rounds" /\ Len(buf) > 0 /\ Len(buf) % 4 = 0) =>
        /\ res.err = ""
        /\ res.val = 1 + (52 \div (Len(buf) \div 4))
        /\ (Len(buf) = 256 => res.val = 1)
        /\ (Len(buf) = 64 => res.val = 4)

C9_Witness ==
    /\ call = "lunii_tea_rounds"
    /\ Len(buf) = 64
    /\ res.val = 4

\* the generation 1-5 parser returned with a decrypted buffer of >= 16 bytes
Key_recovered ==
    /\ parsers_run = <<"md1to5">>
    /\ Dispatch_done
    /\ error = ""
    /\ Len(dec) >= 16

\* C10 as stated: device_key is D[8:16] followed by D[0:8] and is never
\* equal to D[0:16].
C10_ReorderedNeverRaw ==
    Key_recovered =>
        /\ device.device_key = Slice(dec, 8, 16) \o Slice(dec, 0, 8)
        /\ device.device_key # Slice(dec, 0, 16)

\* C10: device_key is D[8:16] followed by D[0:8]; it differs from D[0:16]
\* unless the two halves D[0:8] and D[8:16] are equal.
C10_Reordered ==
    Key_recovered =>
        /\ device.device_key = Slice(dec, 8, 16) \o Slice(dec, 0, 8)
        /\ (device.device_key = Slice(dec, 0, 16)
              <=> Slice(dec, 0, 8) = Slice(dec, 8, 16))

C10_Witness ==
    /\ Key_recovered
    /\ pc = "returned"
    /\ Len(dec) = 256
    /\ Slice(dec, 0, 8) # Slice(dec, 8, 16)
    /\ device.device_key # Slice(dec, 0, 16)

\* the sub-version marker: the byte at offset 0 of the metadata file
Marker == int_from_bytes(read(file, 0, 1))

\* the 14 characters of the serial field at offset 0x1A, as they stand in
\* the metadata file
SerialField == read(file, 26, 14)

HasSerial ==
    /\ Len(SerialField) = 14
    /\ \A i \in 1..14 : IsHexChar(SerialField[i])

LowerCase(str) ==
    [i \in 1..Len(str) |-> IF str[i] \in 65..90 THEN str[i] + 32 ELSE str[i]]

\* the generation 6+ parser ran and returned
Gen6_parsed ==
    /\ parsers_run = <<"md6toN">>
    /\ Dispatch_done
    /\ error = ""

\* C11 as stated: with marker 6 and a serial of 14 hex characters, story_key
\* is ByteReversal(the 14 characters of the serial, then two zero bytes),
\* story_iv is ByteReversal(eight zero bytes, then the first 8 characters of
\* the serial) and the synthetic token is what was read at offset 0x40.
C11_V6KeysFromSerialField ==
    (Gen6_parsed /\ Marker = 6 /\ HasSerial) =>
        /\ device.story_key = ByteReversal(SerialField \o <<0, 0>>)
        /\ device.story_iv = ByteReversal(Zeros(8) \o SubSeq(SerialField, 1, 8))
        /\ device.bt = Slice(file, 64, 96)

\* C11: as above, with the hex characters of the serial in lower case
\* whatever their case in the metadata file.
C11_V6KeysFromLowerCaseSerial ==
    (Gen6_parsed /\ Marker = 6 /\ HasSerial) =>
        /\ device.story_key = ByteReversal(LowerCase(SerialField) \o <<0, 0>>)
        /\ device.story_iv =
              ByteReversal(Zeros(8) \o SubSeq(LowerCase(SerialField), 1, 8))
        /\ device.bt = Slice(file, 64, 96)
        /\ (Len(file) >= 96 => Len(device.bt) = 32)

C11_Witness ==
    /\ Gen6_parsed
    /\ pc = "returned"
    /\ Marker = 6
    /\ SerialField = SerialUpper
    /\ Len(device.bt) = 32
    /\ Len(device.story_key) = 16
    /\ device.story_key # ByteReversal(SerialField \o <<0, 0>>)

\* the key file of the parsed serial does not exist
No_keyfile == dev_keyfile(device, cfg_dir).kind = "absent"

\* C12 as stated: with marker >= 7 and no key file the Device is LUNII_V3,
\* story_key = ByteReversal(bytes 0x40..0x4F), story_iv = ByteReversal(bytes
\* 0x50..0x5F), the synthetic token is the 14 characters of the serial, ten
\* zero bytes and the first 8 characters of the serial (0x20 bytes), and
\* device_key and device_iv are empty.
C12_V7KeysFromRegion ==
    (Gen6_parsed /\ Marker >= 7 /\ HasSerial /\ No_keyfile) =>
        /\ device.device_type = "LUNII_V3"
        /\ device.story_key = ByteReversal(Slice(file, 64, 80))
        /\ device.story_iv = ByteReversal(Slice(file, 80, 96))
        /\ device.bt = SerialField \o Zeros(10) \o SubSeq(SerialField, 1, 8)
        /\ Len(device.bt) = 32
        /\ device.device_key = <<>>
        /\ device.device_iv = <<>>

\* C12: as above, with the hex characters of the serial in lower case
\* whatever their case in the metadata file.
C12_V7KeysFromRegionLowerCaseToken ==
    (Gen6_parsed /\ Marker >= 7 /\ HasSerial /\ No_keyfile) =>
        /\ device.device_type = "LUNII_V3"
        /\ device.story_key = ByteReversal(Slice(file, 64, 80))
        /\ device.story_iv = ByteReversal(Slice(file, 80, 96))
        /\ device.bt = LowerCase(SerialField) \o Zeros(10)
                          \o SubSeq(LowerCase(SerialField), 1, 8)
        /\ Len(device.bt) = 32
        /\ device.device_key = <<>>
        /\ device.device_iv = <<>>

C12_Witness ==
    /\ Gen6_parsed
    /\ pc = "returned"
    /\ Marker = 7
    /\ HasSerial
    /\ No_keyfile
    /\ Len(file) = 512
    /\ Len(device.story_key) = 16
    /\ Len(device.story_iv) = 16
    /\ device.story_key # device.story_iv

\* the (VID, PID) pair as it stands in the metadata file at offsets 18, 20
FileVidPid == <<int_from_bytes(read(file, 18, 2)), int_from_bytes(read(file, 20, 2))>>

\* C13: the generation 1-5 parser sets device_type to LUNII_V1 exactly for
\* the pairs (0x0C45, 0x6820) and (0x0C45, 0x6840), to LUNII_V2 exactly for
\* (0x0483, 0xA341) and to LUNII_V1or2 for every other pair; never to
\* UNKNOWN, LUNII_V3 or FLAM_V1.
C13_TypeByVidPid ==
    parsers_run = <<"md1to5">> =>
        /\ (device.device_type = "LUNII_V1"
              <=> FileVidPid \in {<<3141, 26656>>, <<3141, 26688>>})
        /\ (device.device_type = "LUNII_V2" <=> FileVidPid = <<1155, 41793>>)
        /\ (device.device_type = "LUNII_V1or2"
              <=> FileVidPid \notin {<<3141, 26656>>, <<3141, 26688>>,
                                     <<1155, 41793>>})
        /\ device.device_type \notin {"UNKNOWN", "LUNII_V3", "FLAM_V1"}

C13_Witness ==
    /\ parsers_run = <<"md1to5">>
    /\ pc = "returned"
    /\ FileVidPid = <<3141, 26688>>
    /\ device.device_type = "LUNII_V1"

\* C14: on a mount point with neither .md nor .mdf the construction fails
\* with the unknown-device-type error, no parser is entered and no story is
\* loaded; on a recognised mount point _parse_metadata is called exactly
\* once and the stories are loaded only after it has returned.
C14_ConstructionOrder ==
    /\ parse_calls <= 1
    /\ (pc \in {"call", "parse_metadata"} =>
          parse_calls = 0 /\ parsers_run = <<>> /\ device.stories = {})
    /\ (Dispatch_done /\ ~Recognised) =>
          /\ pc = "raised"
          /\ error = "RuntimeError: unknown device type"
          /\ parsers_run = <<>>
          /\ device.stories = {}
    /\ (Dispatch_done /\ Recognised) =>
          /\ parse_calls = 1
          /\ error # "RuntimeError: unknown device type"
    /\ (pc \in {"load_stories", "returned"} =>
          Recognised /\ parse_calls = 1 /\ error = "")
    /\ (pc = "raised" => error # "" /\ device.stories = {})

C14_Witness ==
    /\ ~Recognised
    /\ pc = "raised"
    /\ error = "RuntimeError: unknown device type"
    /\ parse_calls = 1
    /\ Len(file) > 2

\* the story keys are the two reversed halves of the region at 0x40
Keys_from_region ==
    /\ device.story_key = ByteReversal(Slice(file, 64, 80))
    /\ device.story_iv = ByteReversal(Slice(file, 80, 96))

\* C17: whenever the generation 6+ parser runs, the marker it reads at
\* offset 0 is 6 or at least 7, and the story keys come from the region at
\* 0x40 only when the marker is at least 7.
C17_MarkerSixOrMore ==
    parsers_run = <<"md6toN">> =>
        /\ Marker >= 6
        /\ (Gen6_parsed /\ Len(file) >= 96 /\ Keys_from_region) => Marker >= 7

\* C15: after any sequence of DatabaseManager() constructions every
\* construction returned the same instance, and the one-time initialisation,
\* the database load, ran exactly once, on the first construction only.
C15_SingletonLoadsOnce ==
    returned # <<>> =>
        /\ \A k \in 1..Len(returned) : returned[k] = returned[1]
        /\ init_runs = 1
        /\ load_calls = 1

====
